---- MODULE Spec2Model ----
(***************************************************************************)
(* Model of the FlaschenNP frame encoder (src/flaschen_np.py): a pixel     *)
(* grid that is serialised into "P6" datagrams, whole or in tiles.         *)
(*                                                                         *)
(* Byte strings (bytearray, bytes) are modelled byte for byte as a record  *)
(* [len, nz]: len is the length, nz maps the 0-based positions of the      *)
(* non-zero bytes to their value; every other position holds 0.  Text is   *)
(* ASCII, so "P6\n" is the bytes 80, 54, 10.  The numpy array self.data is *)
(* modelled the same way: a function from <<y, x>> to the RGB triple of    *)
(* the pixels that are not (0,0,0); np.zeros is the empty function.        *)
(*                                                                         *)
(* MAX_UDP_PACKET is a class attribute read through self; packet_limit is  *)
(* its value for the encoder at hand, 65507 unless it is overridden.       *)
(*                                                                         *)
(* out is the sequence of buffers the last operation passed to             *)
(* self._sock.send, accepted the number of those calls that returned, err  *)
(* the exception the last operation raised, last_op the last call made.    *)
(* Any call of self._sock.send may raise OSError; that covers a network    *)
(* error as well as the system refusing a datagram that is too long.       *)
(*                                                                         *)
(* The second part models the web controller                               *)
(* (src/matrix_web_controller.py): the animation-control thread, the       *)
(* scheduler thread and the Flask request handlers (threaded=True), which  *)
(* share the globals animation_state and matrix_process, and the child     *)
(* processes running matrix_effect.py.  A thread takes one step per access *)
(* to the shared globals or to a child; wait() is a step that is enabled   *)
(* once the child has exited.  Requests to /color and /schedule and the    *)
(* settings they write are part of it; ColorSpec is the controller with    *)
(* one client that sends control and color requests one after the other,   *)
(* ScheduleSpec the handler of POST /schedule by itself.                   *)
(*                                                                         *)
(* The third part models main of the animation (src/matrix_effect.py),     *)
(* which drives an encoder of its own: EffectSpec.                         *)
(*                                                                         *)
(* The fourth part models the drawing operations of the controller         *)
(* (draw_text, fill_screen, display_qr_code), which its threads call       *)
(* concurrently, each on FlaschenNP objects of its own: DrawSpec.          *)
(***************************************************************************)
EXTENDS Integers, Sequences, FiniteSets, TLC

VARIABLES pc, width, height, layer, transparent, packet_limit,
          data, bytedata, header_len, footer_len, buffer_size,
          out, accepted, err, last_op

\* the controller: its two globals, the children it spawned (in spawning
\* order), whether the clock is inside the active window, and the position
\* of the animation thread, of each request handler and of the scheduler
VARIABLES animation_state, matrix_process, procs, active_hours,
          anim, req, sched

\* the controller's settings: the globals current_color, start_time and
\* end_time, the event color_change_event, the content of the settings
\* file, the argument list of the last subprocess.Popen, and the handler
\* of the request to /color or /schedule that is being served
VARIABLES current_color, color_change_event, start_time, end_time,
          settings, cmd, web

\* main of matrix_effect.py: where it is, interrupt_received, the
\* exception that is propagating, whether main returned and what
VARIABLE effect

\* the controller's drawing: the FlaschenNP objects that are alive, what
\* each producer thread is drawing and the object its local name refers
\* to, and the module's global ft
VARIABLES encoders, draw, ft

\* the encoder's variables
evars == <<pc, width, height, layer, transparent, packet_limit,
           data, bytedata, header_len, footer_len, buffer_size,
           out, accepted, err, last_op>>

\* the controller's variables
kvars == <<animation_state, matrix_process, procs, active_hours,
           anim, req, sched,
           current_color, color_change_event, start_time, end_time,
           settings, cmd, web>>

\* the variables of the controller's drawing operations
dvars == <<encoders, draw, ft>>

\* what the encoder's operations leave alone
cvars == <<kvars, effect, dvars>>

\* what only the handlers of /color and /schedule write
svars == <<current_color, start_time, end_time, settings, web>>

vars == <<evars, cvars>>

attrs == <<width, height, layer, transparent, packet_limit,
           header_len, footer_len, buffer_size>>

(* ---------------------------- bounds ---------------------------------- *)

\* small canvases have sides -1 .. MaxSide
MaxSide == 2
\* at most MaxLit pixels of the grid are non-black at a time
MaxLit == 1
\* the controller spawns at most MaxProc children in one run
MaxProc == 2
\* at most MaxReq control requests are being handled at a time
MaxReq == 1
\* MaxProducers threads of the controller draw at the same time
MaxProducers == 2

\* canvases whose frame does not fit one packet of 65507 bytes
LargeDims == {<<408, 107>>, <<192, 128>>, <<200, 150>>}
\* packet limits below one small frame: budget < 0, = 0, and a few pixels
SmallLimits == {16, 19, 29}
Layers == {0, 10}
\* the canvas matrix_effect.py builds by default: width, height, layer and
\* the transparent flag it leaves at False
MatrixCanvas == <<45, 35, 2, FALSE>>
Colors == {<<0, 0, 0>>, <<255, 0, 7>>}

(* ------------------------- program constants -------------------------- *)

MAX_UDP_PACKET == 65507

(* ----------------------------- bytes ---------------------------------- *)

Min(a, b) == IF a <= b THEN a ELSE b

\* ASCII codes
LF == 10
SP == 32
MINUS == 45
CH_P == 80
CH_6 == 54
CH_0 == 48

RECURSIVE DecDigits(_)
\* the decimal digits of n >= 0 as ASCII codes
DecDigits(n) ==
  IF n < 10 THEN <<CH_0 + n>> ELSE Append(DecDigits(n \div 10), CH_0 + (n % 10))

\* "%d" % n
Dec(n) == IF n < 0 THEN <<MINUS>> \o DecDigits(0 - n) ELSE DecDigits(n)

\* mutant of Header: height before width
HeaderHW(w, h) ==
  <<CH_P, CH_6, LF>> \o Dec(h) \o <<SP>> \o Dec(w) \o <<LF>> \o Dec(255) \o <<LF>>

\* ''.join(["P6\n", "%d %d\n" % (w, h), "255\n"])
Header(w, h) ==
  <<CH_P, CH_6, LF>> \o Dec(w) \o <<SP>> \o Dec(h) \o <<LF>> \o Dec(255) \o <<LF>>

\* mutant of Footer: the two offsets change places
FooterYX(x, y, l) == Dec(y) \o <<LF>> \o Dec(x) \o <<LF>> \o Dec(l) \o <<LF>>

\* ''.join(["%d\n" % x, "%d\n" % y, "%d\n" % layer])
Footer(x, y, l) == Dec(x) \o <<LF>> \o Dec(y) \o <<LF>> \o Dec(l) \o <<LF>>

EmptyMap == [p \in {} |-> 0]

\* bytearray(n): n zero bytes
ByteArray(n) == [len |-> n, nz |-> EmptyMap]

\* b[start : start + Len(s)] = s, for a sequence s of byte values
PutSeq(b, start, s) ==
  LET span == start .. (start + Len(s) - 1)
      keep == (DOMAIN b.nz) \ span
      new  == {p \in span : s[p - start + 1] # 0}
  IN [len |-> b.len,
      nz  |-> [p \in keep \cup new |->
                 IF p \in new THEN s[p - start + 1] ELSE b.nz[p]]]

\* mutant of PutBytes: the zero bytes of src are not copied
PutBytesNonZero(b, start, src) ==
  LET new == {start + q : q \in DOMAIN src.nz}
  IN [len |-> b.len,
      nz  |-> [p \in (DOMAIN b.nz) \cup new |->
                 IF p \in new THEN src.nz[p - start] ELSE b.nz[p]]]

\* b[start : start + src.len] = src, for a byte string src
PutBytes(b, start, src) ==
  LET span == start .. (start + src.len - 1)
      keep == (DOMAIN b.nz) \ span
      new  == {start + q : q \in DOMAIN src.nz}
  IN [len |-> b.len,
      nz  |-> [p \in keep \cup new |->
                 IF p \in new THEN src.nz[p - start] ELSE b.nz[p]]]

ByteAt(b, p) == IF p \in DOMAIN b.nz THEN b.nz[p] ELSE 0

(* ------------------------------ grid ---------------------------------- *)

Black == <<0, 0, 0>>

\* np.zeros((height, width, 3), 'uint8')
Zeros == [k \in {} |-> Black]

PixelAt(d, x, y) == IF <<y, x>> \in DOMAIN d THEN d[<<y, x>>] ELSE Black

\* data[y, x, :] = color
StorePixel(d, x, y, color) ==
  LET dom == IF color = Black THEN (DOMAIN d) \ {<<y, x>>}
                              ELSE (DOMAIN d) \cup {<<y, x>>}
  IN [k \in dom |-> IF k = <<y, x>> THEN color ELSE d[k]]

\* mutant of TileBytes: the slice ignores the tile's offset
TileBytesFromOrigin(d, x0, y0, w, h) ==
  LET inside == {k \in DOMAIN d : k[1] < h /\ k[2] < w}
      at(k, c) == (k[1] * w + k[2]) * 3 + c
      idx == {at(k, c) : k \in inside, c \in 0..2}
      val(i) == d[<<(i \div 3) \div w, (i \div 3) % w>>][(i % 3) + 1]
  IN [len |-> w * h * 3,
      nz  |-> [i \in {j \in idx : val(j) # 0} |-> val(i)]]

\* data[y0 : y0 + h, x0 : x0 + w, :].tobytes(): row-major, RGB
TileBytes(d, x0, y0, w, h) ==
  LET inside == {k \in DOMAIN d : /\ k[1] >= y0 /\ k[1] < y0 + h
                                   /\ k[2] >= x0 /\ k[2] < x0 + w}
      at(k, c) == ((k[1] - y0) * w + (k[2] - x0)) * 3 + c
      idx == {at(k, c) : k \in inside, c \in 0..2}
      val(i) == d[<<y0 + ((i \div 3) \div w), x0 + ((i \div 3) % w)>>][(i % 3) + 1]
  IN [len |-> w * h * 3,
      nz  |-> [i \in {j \in idx : val(j) # 0} |-> val(i)]]

(* ------------------------- tiling geometry ---------------------------- *)

\* int(math.sqrt(n)) for n >= 0: the r with r*r <= n < (r+1)*(r+1)
ISqrt(n) == CHOOSE r \in 0..n : r * r <= n /\ n < (r + 1) * (r + 1)

\* pixels_per_packet
PixelsPerPacket(limit, hl, fl) == (limit - hl - fl) \div 3

\* mutant of TileShape: the tile is one column wider
TileShapeWide(W, H, ppp) ==
  IF ppp < 0 THEN [raise |-> "ValueError", tw |-> 0, th |-> 0]
  ELSE LET th0 == Min(H, ISqrt(ppp)) IN
    IF th0 = 0 THEN [raise |-> "ZeroDivisionError", tw |-> 0, th |-> 0]
    ELSE [raise |-> "none", tw |-> Min(W, (ppp \div th0) + 1), th |-> th0]

\* tile_height, tile_width as send() computes them, or the exception raised
\* on the way: math.sqrt of a negative budget, budget // 0, range(.., 0)
TileShape(W, H, ppp) ==
  IF ppp < 0 THEN [raise |-> "ValueError", tw |-> 0, th |-> 0]
  ELSE LET th0 == Min(H, ISqrt(ppp)) IN
    IF th0 = 0 THEN [raise |-> "ZeroDivisionError", tw |-> 0, th |-> 0]
    ELSE LET tw0 == Min(W, ppp \div th0)
             tw1 == IF tw0 < 1 THEN 1 ELSE tw0
             th1 == IF tw0 < 1 THEN Min(H, ppp) ELSE th0
         IN IF th1 = 0 THEN [raise |-> "ValueError", tw |-> tw1, th |-> th1]
            ELSE [raise |-> "none", tw |-> tw1, th |-> th1]

\* mutant of Range: a last step shorter than the others is left out
RangeWhole(stop, step) ==
  LET n == IF step > 0 /\ stop > 0 THEN stop \div step ELSE 0
  IN [i \in 1..n |-> (i - 1) * step]

\* range(0, stop, step) as a sequence, step # 0
Range(stop, step) ==
  LET n == IF step > 0 /\ stop > 0 THEN (stop + step - 1) \div step
           ELSE IF step < 0 /\ stop < 0 THEN ((0 - stop) - step - 1) \div (0 - step)
           ELSE 0
  IN [i \in 1..n |-> (i - 1) * step]

\* mutant of TileOrigins: the x loop is the outer one
TileOriginsColumnMajor(W, H, tw, th) ==
  LET ys == Range(H, th)
      xs == Range(W, tw)
      ny == Len(ys)
  IN [k \in 1..(Len(xs) * ny) |->
        <<xs[((k - 1) \div ny) + 1], ys[((k - 1) % ny) + 1]>>]

\* the tile origins <<x_offset, y_offset>> in the order of the two loops
TileOrigins(W, H, tw, th) ==
  LET ys == Range(H, th)
      xs == Range(W, tw)
      nx == Len(xs)
  IN [k \in 1..(Len(ys) * nx) |->
        <<xs[((k - 1) % nx) + 1], ys[((k - 1) \div nx) + 1]>>]

\* mutant of TileDatagram: the tile is not clipped at the canvas edge
TileDatagramUnclipped(d, W, H, l, x0, y0, tw, th) ==
  LET tile_header == Header(tw, th)
      tile_footer == Footer(x0, y0, l)
      total == tw * th * 3 + Len(tile_header) + Len(tile_footer)
      b0 == ByteArray(total)
      b1 == PutSeq(b0, 0, tile_header)
      b2 == PutSeq(b1, total - Len(tile_footer), tile_footer)
  IN PutBytes(b2, Len(tile_header), TileBytes(d, x0, y0, tw, th))

\* tile_data for the tile at <<x0, y0>>
TileDatagram(d, W, H, l, x0, y0, tw, th) ==
  LET cw == Min(tw, W - x0)
      ch == Min(th, H - y0)
      tile_header == Header(cw, ch)
      tile_footer == Footer(x0, y0, l)
      total == cw * ch * 3 + Len(tile_header) + Len(tile_footer)
      b0 == ByteArray(total)
      b1 == PutSeq(b0, 0, tile_header)
      b2 == PutSeq(b1, total - Len(tile_footer), tile_footer)
  IN PutBytes(b2, Len(tile_header), TileBytes(d, x0, y0, cw, ch))

\* every tile_data of one send(), in sending order
TileDatagrams(d, W, H, l, tw, th) ==
  LET os == TileOrigins(W, H, tw, th)
  IN [k \in 1..Len(os) |-> TileDatagram(d, W, H, l, os[k][1], os[k][2], tw, th)]

(* ---------------------------- operations ------------------------------ *)

SmallSides == (-1)..MaxSide

\* the x coordinates tried on a canvas of width n: the two ends, the two
\* columns in the middle, and one step outside on either end; the matrix
\* canvas is one datagram whatever the pixel, its corners stand for the rest
XCoords(n) ==
  IF n = MatrixCanvas[1] THEN {-1, 0, n - 1, n}
  ELSE {-1, 0, (n \div 2) - 1, n \div 2, n - 1, n}

\* the y coordinates tried on a canvas of height n: the two ends and one
\* step outside on either end
YCoords(n) == {-1, 0, n - 1, n}

\* the canvas sizes tried.  Under the shipped limit a canvas of a few pixels
\* is one datagram whatever its sides, so sides up to 1 stand for them next
\* to the large canvases; under a small limit every small side is tried
DimsFor(limit) ==
  IF limit = MAX_UDP_PACKET
  THEN (((-1)..1) \X ((-1)..1)) \cup LargeDims
  ELSE SmallSides \X SmallSides

\* the constructor arguments tried: <<width, height, layer, transparent>>
Canvases(limit) ==
  {<<d[1], d[2], l, t>> : d \in DimsFor(limit), l \in Layers, t \in BOOLEAN}
    \cup (IF limit = MAX_UDP_PACKET THEN {MatrixCanvas} ELSE {})

Reqs == 1..MaxReq

\* the threads that call the drawing operations, and the places for the
\* FlaschenNP objects they construct, one place for each producer
Producers == 1..MaxProducers
Slots == 1..MaxProducers

\* Python's None as the value of a name that refers to no encoder
None == 0

\* a place that holds no object
NoInstance == [live |-> FALSE, width |-> 0, height |-> 0, layer |-> 0,
               transparent |-> FALSE, data |-> Zeros, out |-> <<>>]

\* a producer that is in none of the drawing operations
NotDrawing == [pc |-> "idle", op |-> "none", layer |-> 0, clear |-> FALSE,
               plan |-> <<>>, k |-> 0, ref |-> None, exc |-> "none"]

DISPLAY_WIDTH == 192
DISPLAY_HEIGHT == 128
DISPLAY_LAYER == 2

\* text is a sequence of characters
DefaultStart == <<"0", "6", ":", "3", "0">>
DefaultEnd == <<"2", "2", ":", "0", "0">>

\* the color names a client sends; current_color starts as "green"
ColorNames == {"green", "red"}

\* mutant of SavedSettings: the color is not written
SavedSettingsNoColor(c, s, e) == [color |-> "green", start_time |-> s, end_time |-> e]

\* save_settings: the settings file after the globals c, s, e are
\* written to it (the write is taken to succeed; the text is left out)
SavedSettings(c, s, e) == [color |-> c, start_time |-> s, end_time |-> e]

\* main of matrix_effect.py has not been entered
NotStarted == [pc |-> "args", interrupt_received |-> FALSE,
               exc |-> "none", returned |-> FALSE, ret |-> 0]

\* no Popen yet
NoCmd == [width |-> 0, height |-> 0, layer |-> 0, color |-> "none"]

\* no request to /color or /schedule is being served
WebIdle == [pc |-> "idle", arg |-> "none", res |-> "none"]

\* a thread that is not in a request: Flask's worker between two requests.
\* res is the response of the request at hand once it is determined
Idle == [pc |-> "idle", act |-> "none", w |-> 0, res |-> "none"]

\* the controller after __main__ has started its threads, at a time inside
\* (a = TRUE) or outside the active window
MainStarted(a) ==
  /\ active_hours = a
  /\ animation_state = IF a THEN "Stopped" ELSE "Blank"
  /\ matrix_process = 0
  /\ procs = <<>>
  /\ anim = [pc |-> "top", w |-> 0, c |-> "none"]
  /\ req = [h \in Reqs |-> Idle]
  /\ sched = "run"
  /\ current_color = "green"
  /\ color_change_event = FALSE
  /\ start_time = DefaultStart
  /\ end_time = DefaultEnd
  /\ settings = SavedSettings(current_color, start_time, end_time)
  /\ cmd = NoCmd
  /\ web = WebIdle
  /\ effect = NotStarted
  /\ encoders = [s \in Slots |-> NoInstance]
  /\ draw = [t \in Producers |-> NotDrawing]
  /\ ft = None

\* no encoder constructed yet
NoEncoder ==
  /\ pc = "new"
  /\ width = 0 /\ height = 0 /\ layer = 0 /\ transparent = FALSE
  /\ data = Zeros
  /\ bytedata = ByteArray(0)
  /\ header_len = 0 /\ footer_len = 0 /\ buffer_size = 0
  /\ out = <<>>
  /\ accepted = 0
  /\ err = "none"
  /\ last_op = "new"

Init ==
  /\ MainStarted(TRUE)
  /\ pc = "new"
  /\ packet_limit \in SmallLimits \cup {MAX_UDP_PACKET}
  /\ width = 0 /\ height = 0 /\ layer = 0 /\ transparent = FALSE
  /\ data = Zeros
  /\ bytedata = ByteArray(0)
  /\ header_len = 0 /\ footer_len = 0 /\ buffer_size = 0
  /\ out = <<>>
  /\ accepted = 0
  /\ err = "none"
  /\ last_op = "new"

\* bytearray(n) raises for n < 0, np.zeros for a negative dimension
ConstructRaises(w, h, l) ==
  \/ w * h * 3 + Len(Header(w, h)) + Len(Footer(0, 0, l)) < 0
  \/ w < 0
  \/ h < 0

\* what FlaschenNP(host, port, w, h, l, t) does to the encoder
ConstructBody(w, h, l, t) ==
  /\ pc = "new"
  /\ last_op' = "init"
  /\ out' = <<>>
  /\ accepted' = 0
  /\ UNCHANGED packet_limit
  /\ IF ConstructRaises(w, h, l)
     THEN /\ err' = "ValueError"
          /\ UNCHANGED <<pc, width, height, layer, transparent, data, bytedata,
                         header_len, footer_len, buffer_size>>
     ELSE LET header == Header(w, h)
              footer == Footer(0, 0, l)
              n == w * h * 3 + Len(header) + Len(footer)
          IN /\ pc' = "ready"
             /\ err' = "none"
             /\ width' = w /\ height' = h /\ layer' = l /\ transparent' = t
             /\ bytedata' = PutSeq(PutSeq(ByteArray(n), 0, header),
                                   n - Len(footer), footer)
             /\ data' = Zeros
             /\ header_len' = Len(header)
             /\ footer_len' = Len(footer)
             /\ buffer_size' = n

\* FlaschenNP(host, port, w, h, l, t)
Construct(w, h, l, t) == ConstructBody(w, h, l, t) /\ UNCHANGED cvars

\* mutant of OutOfBounds: > for >=
OutOfBoundsOffByOne(x, y, W, H) == x > W \/ y > H \/ x < 0 \/ y < 0

\* the bounds check of set()
OutOfBounds(x, y, W, H) == x >= W \/ y >= H \/ x < 0 \/ y < 0

\* the colour set() stores
StoredColor(color, t) == IF color = Black /\ ~t THEN <<1, 1, 1>> ELSE color

\* the grid after set(x, y, color)
DataAfterSet(d, x, y, color, W, H, t) ==
  IF OutOfBounds(x, y, W, H) THEN d ELSE StorePixel(d, x, y, StoredColor(color, t))

SetBody(x, y, color) ==
  /\ pc = "ready"
  /\ data' = DataAfterSet(data, x, y, color, width, height, transparent)
  /\ Cardinality(DOMAIN data') <= MaxLit
  /\ out' = <<>>
  /\ accepted' = 0
  /\ err' = "none"
  /\ last_op' = "set"
  /\ UNCHANGED <<pc, attrs, bytedata>>

\* ft.set(x, y, color)
Set(x, y, color) == SetBody(x, y, color) /\ UNCHANGED cvars

\* ft.ijset(ii, jj, color)
IjSet(ii, jj, color) == SetBody(jj, ii, color) /\ UNCHANGED cvars

\* mutant of DataAfterZero: only row 0 is cleared
DataAfterZeroRow0(d) == [k \in {j \in DOMAIN d : j[1] # 0} |-> d[k]]

\* the grid after zero()
DataAfterZero(d) == Zeros

\* what ft.zero() does to the encoder
ZeroBody ==
  /\ pc = "ready"
  /\ data' = DataAfterZero(data)
  /\ out' = <<>>
  /\ accepted' = 0
  /\ err' = "none"
  /\ last_op' = "zero"
  /\ UNCHANGED <<pc, attrs, bytedata>>

\* ft.zero()
Zero == ZeroBody /\ UNCHANGED cvars

\* mutant of NeedsTiling: the threshold is one byte too high
NeedsTilingLate(size, limit) == size > limit + 1

\* whether send() takes the tiling branch
NeedsTiling(size, limit) == size > limit

\* the datagrams send() builds, in order, were every socket send to succeed
Frames(d, bd, W, H, l, hl, tw, th, tiled) ==
  IF tiled THEN TileDatagrams(d, W, H, l, tw, th)
  ELSE <<PutBytes(bd, hl, TileBytes(d, 0, 0, W, H))>>

\* mutant of Handed: the exception is swallowed and the loops go on
HandedAll(dgs, k) == dgs

\* mutant of DataAfterSend: send() clears the grid
DataAfterSendCleared(d) == Zeros

\* the buffers passed to the socket when its k-th call raises (k = 0: none
\* does): the exception leaves both loops, nothing catches it
Handed(dgs, k) == IF k = 0 THEN dgs ELSE SubSeq(dgs, 1, k)

\* the grid after send(): send() only reads self.data
DataAfterSend(d) == d

\* what ft.send() does to the encoder; fail = k > 0: the socket raises on
\* the k-th datagram
SendBody ==
  /\ pc = "ready"
  /\ last_op' = "send"
  /\ data' = DataAfterSend(data)
  /\ UNCHANGED <<pc, attrs>>
  /\ LET tiled == NeedsTiling(buffer_size, packet_limit)
         shape == IF tiled
                  THEN TileShape(width, height,
                                 PixelsPerPacket(packet_limit, header_len, footer_len))
                  ELSE [raise |-> "none", tw |-> width, th |-> height]
     IN IF shape.raise # "none"
        THEN /\ err' = shape.raise
             /\ out' = <<>>
             /\ accepted' = 0
             /\ UNCHANGED bytedata
        ELSE LET dgs == Frames(data, bytedata, width, height, layer, header_len,
                               shape.tw, shape.th, tiled)
             IN /\ bytedata' = IF tiled THEN bytedata ELSE dgs[1]
                /\ \E fail \in 0..Len(dgs) :
                     /\ out' = Handed(dgs, fail)
                     /\ accepted' = IF fail = 0 THEN Len(dgs) ELSE fail - 1
                     /\ err' = IF fail = 0 THEN "none" ELSE "OSError"

\* ft.send()
Send == SendBody /\ UNCHANGED cvars

Next ==
  \/ \E c \in Canvases(packet_limit) : Construct(c[1], c[2], c[3], c[4])
  \/ \E x \in XCoords(width), y \in YCoords(height), c \in Colors : Set(x, y, c)
  \/ \E ii \in YCoords(height), jj \in XCoords(width), c \in Colors : IjSet(ii, jj, c)
  \/ Zero
  \/ Send

Spec == Init /\ [][Next]_vars

(* ------------------- reading a datagram back -------------------------- *)

RECURSIVE ReadDecFrom(_, _, _)
ReadDecFrom(b, p, acc) ==
  IF p < b.len /\ ByteAt(b, p) >= CH_0 /\ ByteAt(b, p) <= CH_0 + 9
  THEN ReadDecFrom(b, p + 1, acc * 10 + (ByteAt(b, p) - CH_0))
  ELSE [val |-> acc, next |-> p]

\* the decimal number that starts at position p, and where it ends
ReadDec(b, p) == ReadDecFrom(b, p, 0)

\* a datagram as a receiver parses it: "P6\n<w> <h>\n255\n" <3*w*h bytes>
\* "<x>\n<y>\n<layer>\n"
Decode(b) ==
  LET w == ReadDec(b, 3)
      h == ReadDec(b, w.next + 1)
      m == ReadDec(b, h.next + 1)
      body == m.next + 1
      foot == body + 3 * w.val * h.val
      x == ReadDec(b, foot)
      y == ReadDec(b, x.next + 1)
      l == ReadDec(b, y.next + 1)
  IN [ok |-> /\ ByteAt(b, 0) = CH_P /\ ByteAt(b, 1) = CH_6 /\ ByteAt(b, 2) = LF
             /\ w.next > 3 /\ ByteAt(b, w.next) = SP
             /\ h.next > w.next + 1 /\ ByteAt(b, h.next) = LF
             /\ m.val = 255 /\ ByteAt(b, m.next) = LF
             /\ x.next > foot /\ ByteAt(b, x.next) = LF
             /\ y.next > x.next + 1 /\ ByteAt(b, y.next) = LF
             /\ l.next > y.next + 1 /\ ByteAt(b, l.next) = LF
             /\ l.next + 1 = b.len,
      w |-> w.val, h |-> h.val, body |-> body, foot |-> foot,
      x |-> x.val, y |-> y.val, layer |-> l.val]

\* the colour a datagram carries for the pixel <<px, py>> of its rectangle
DecodedPixel(b, px, py) ==
  LET f == Decode(b)
      at == f.body + (py * f.w + px) * 3
  IN <<ByteAt(b, at), ByteAt(b, at + 1), ByteAt(b, at + 2)>>

\* the datagram's rectangle contains the canvas pixel <<x, y>>
Covers(b, x, y) ==
  LET f == Decode(b)
  IN x >= f.x /\ x < f.x + f.w /\ y >= f.y /\ y < f.y + f.h

RECURSIVE AreaSum(_, _)
AreaSum(dgs, k) ==
  IF k = 0 THEN 0 ELSE Decode(dgs[k]).w * Decode(dgs[k]).h + AreaSum(dgs, k - 1)

\* the serialised size of the whole canvas: header + W*H*3 + footer
FullFrameSize == Len(Header(width, height)) + width * height * 3
                   + Len(Footer(0, 0, layer))

SendReturned == last_op = "send" /\ err = "none"

(* ------------------------------ claims -------------------------------- *)

\* C1: with the shipped limit, every datagram send() hands to the socket,
\* whole frame or tile, is at most 65507 bytes long.
C1_DatagramsFitUdp ==
  (packet_limit = MAX_UDP_PACKET /\ last_op = "send") =>
     \A k \in 1..Len(out) : out[k].len <= MAX_UDP_PACKET

\* C2: when the frame does not fit one packet and send() returns, the tile
\* rectangles read from its datagrams lie inside the canvas, are pairwise
\* disjoint and their areas add up to W*H: every pixel is in exactly one.
C2_TilesCoverCanvas ==
  (SendReturned /\ FullFrameSize > packet_limit) =>
     /\ \A k \in 1..Len(out) :
          LET f == Decode(out[k])
          IN /\ f.ok
             /\ f.w >= 1 /\ f.h >= 1
             /\ f.x >= 0 /\ f.x + f.w <= width
             /\ f.y >= 0 /\ f.y + f.h <= height
     /\ \A j, k \in 1..Len(out) :
          j < k =>
            LET f == Decode(out[j])
                g == Decode(out[k])
            IN \/ f.x + f.w <= g.x \/ g.x + g.w <= f.x
               \/ f.y + f.h <= g.y \/ g.y + g.h <= f.y
     /\ AreaSum(out, Len(out)) = width * height
     /\ \A x \in XCoords(width), y \in YCoords(height) :
          (x >= 0 /\ x < width /\ y >= 0 /\ y < height) =>
            Cardinality({k \in 1..Len(out) : Covers(out[k], x, y)}) = 1

\* a send of the canvas 192 x 128 returned with tiles, one of them clipped
C2_Witness ==
  /\ SendReturned /\ packet_limit = MAX_UDP_PACKET
  /\ width = 192 /\ height = 128
  /\ Len(out) = 2
  /\ Decode(out[2]).w < Decode(out[1]).w

\* C3: a frame of at most packet_limit bytes goes out as exactly one
\* datagram with the canvas size in the header and 0, 0, layer in the
\* footer; send() tiles (more than one datagram) iff the frame is larger.
C3_SingleDatagramIffFits ==
  SendReturned =>
     /\ (FullFrameSize <= packet_limit) <=> (Len(out) = 1)
     /\ FullFrameSize <= packet_limit =>
          LET f == Decode(out[1])
          IN /\ f.ok
             /\ f.w = width /\ f.h = height
             /\ f.x = 0 /\ f.y = 0 /\ f.layer = layer
             /\ out[1].len = FullFrameSize

\* a frame of exactly packet_limit bytes was sent as one datagram
C3_Witness ==
  /\ SendReturned
  /\ FullFrameSize = packet_limit
  /\ width >= 1 /\ height >= 1
  /\ Len(out) = 1

\* <<x, y>> is a pixel of the canvas
OnCanvas(x, y) == x >= 0 /\ x < width /\ y >= 0 /\ y < height

\* the colour the datagrams dgs carry for the canvas pixel <<x, y>>, taken
\* from every datagram whose rectangle contains it
CarriedColors(dgs, x, y) ==
  {DecodedPixel(dgs[k], x - Decode(dgs[k]).x, y - Decode(dgs[k]).y) :
     k \in {j \in 1..Len(dgs) : Covers(dgs[j], x, y)}}

\* no byte of the pixel payload of b is non-zero
PayloadAllZero(b) ==
  \A p \in DOMAIN b.nz : p < Decode(b).body \/ p >= Decode(b).foot

\* (a step of ijset(y, x, c) is a step of set(x, y, c))
C4_Step ==
  /\ last_op' = "set" =>
       \A x \in XCoords(width), y \in YCoords(height), c \in Colors :
          (OnCanvas(x, y) /\ Set(x, y, c)) =>
             PixelAt(data', x, y) =
               (IF c = <<0, 0, 0>> /\ ~transparent THEN <<1, 1, 1>> ELSE c)
  /\ \A x \in XCoords(width), y \in YCoords(height) :
       (OnCanvas(x, y) /\ PixelAt(data', x, y) # PixelAt(data, x, y)) =>
          \/ last_op' = "zero"
          \/ \E c \in Colors : Set(x, y, c)
  /\ (last_op' = "send" /\ err' = "none") =>
       \A x \in XCoords(width), y \in YCoords(height) :
          OnCanvas(x, y) =>
            /\ Cardinality({k \in 1..Len(out') : Covers(out'[k], x, y)}) = 1
            /\ CarriedColors(out', x, y) = {PixelAt(data, x, y)}

\* C4: set(x, y, c) on the canvas stores c, or (1,1,1) for c = (0,0,0) on a
\* non-transparent canvas; only zero() or a set() of the same pixel changes
\* a stored pixel; and the datagrams of a send() that returns carry, in the
\* one rectangle that covers it, the stored colour of every pixel, in the
\* single-datagram and in the tiled path.
C4_SetSendRoundTrip == [][C4_Step]_vars

\* a tiled send returned that carries, outside the first tile, a pixel set
\* to black on a non-transparent canvas
C4_Witness ==
  /\ SendReturned /\ ~transparent
  /\ Len(out) > 1
  /\ \E k \in DOMAIN data :
       /\ data[k] = <<1, 1, 1>>
       /\ ~Covers(out[1], k[2], k[1])
       /\ CarriedColors(out, k[2], k[1]) = {<<1, 1, 1>>}

\* C5: construction with width <= 0 or height <= 0 fails with an error and
\* yields no encoder: an encoder exists only with positive width and height.
C5_ConstructionRejectsNonPositive ==
  /\ pc = "ready" => (width > 0 /\ height > 0)
  /\ (pc = "new" /\ last_op = "init") => err # "none"

C6_Step ==
  /\ (last_op' = "send" /\ FullFrameSize > packet_limit
        /\ accepted' < Len(out')) =>
       /\ err' = "OSError"
       /\ Len(out') = accepted' + 1
       /\ \A j, k \in 1..Len(out') :
            j < k => <<Decode(out'[j]).x, Decode(out'[j]).y>>
                       # <<Decode(out'[k]).x, Decode(out'[k]).y>>
       /\ data' = data /\ attrs' = attrs /\ bytedata' = bytedata /\ pc' = pc
  /\ (last_op = "send" /\ err = "OSError" /\ FullFrameSize > packet_limit
        /\ last_op' = "send" /\ err' = "none") =>
       /\ Len(out') >= Len(out)
       /\ SubSeq(out', 1, Len(out)) = out
       /\ accepted' = Len(out')
       /\ AreaSum(out', Len(out')) = width * height

\* C6: when the socket raises on the k-th tile of a tiled send(), send()
\* raises that error, tiles 1..k-1 were accepted once each, the k-th is the
\* last one handed over, the grid and the attributes are unchanged, and a
\* send() that follows and returns emits the same tiles again and all the
\* others, covering the whole canvas.
C6_SendErrorAbortsFlush == [][C6_Step]_vars

\* the socket raised on the second of four tiles
C6_Witness ==
  /\ last_op = "send" /\ err = "OSError"
  /\ width = 200 /\ height = 150
  /\ Len(out) = 2 /\ accepted = 1

C7_Step ==
  /\ pc = "ready" => (width' = width /\ height' = height /\ pc' = "ready")
  /\ \A k \in DOMAIN data' : OnCanvas(k[2], k[1])
  /\ last_op' = "set" =>
       \A x \in XCoords(width), y \in YCoords(height), c \in Colors :
          ((x < 0 \/ x >= width \/ y < 0 \/ y >= height) /\ Set(x, y, c)) =>
             /\ data' = data
             /\ attrs' = attrs
             /\ err' = "none"

\* (a step of ijset(y, x, c) is a step of set(x, y, c))
\* C7: set() with x or y outside the canvas raises nothing and leaves the
\* grid and width, height, layer, transparent unchanged; no operation on a
\* constructed encoder changes width or height, and no pixel is ever stored
\* outside the W x H grid.
C7_OutOfBoundsSetIsNoOp == [][C7_Step]_vars

\* after a set() on a non-transparent canvas the grid is all black: that
\* set() stored nothing, its coordinates were outside the canvas
C7_Witness ==
  /\ last_op = "set" /\ ~transparent /\ err = "none"
  /\ width >= 1 /\ height >= 1
  /\ data = Zeros

C8_Step ==
  /\ last_op' = "zero" =>
       /\ DOMAIN data' = {}
       /\ \A x \in XCoords(width), y \in YCoords(height) :
            PixelAt(data', x, y) = <<0, 0, 0>>
  /\ (last_op = "zero" /\ last_op' = "send") =>
       \A k \in 1..Len(out') : Decode(out'[k]).ok /\ PayloadAllZero(out'[k])

\* C8: zero() leaves every pixel at exactly (0,0,0), transparent or not, and
\* the send() right after it hands over datagrams whose payload bytes are
\* all 0.
C8_ZeroStoresBlack == [][C8_Step]_vars

\* zero() was called on a non-transparent canvas whose last frame, still in
\* the send buffer, had a lit pixel
C8_Witness ==
  /\ last_op = "zero" /\ ~transparent
  /\ data = Zeros
  /\ \E p \in DOMAIN bytedata.nz :
       p >= header_len /\ p < buffer_size - footer_len

C9_Step ==
  (last_op = "send" /\ err = "none" /\ last_op' = "send" /\ err' = "none") =>
     out' = out

\* C9: two send() calls that both return, with no other call in between,
\* hand the same datagrams, byte for byte and in the same order, to the
\* socket.
C9_SendTwiceSameDatagrams == [][C9_Step]_vars

\* a tiled send of a grid with a lit pixel returned
C9_Witness ==
  /\ SendReturned
  /\ Len(out) > 1
  /\ data # Zeros
  /\ \E k \in 1..Len(out) : ~PayloadAllZero(out[k])

\* C10: a send() that has to tile never raises on the way to its tile
\* shape, also when the pixel budget is 0: it ends with tiles of at least
\* 1 x 1.
C10_TilingAlwaysProgresses ==
  (last_op = "send" /\ FullFrameSize > packet_limit
     /\ PixelsPerPacket(packet_limit, header_len, footer_len) >= 0) =>
       /\ err \in {"none", "OSError"}
       /\ \A k \in 1..Len(out) : Decode(out[k]).w >= 1 /\ Decode(out[k]).h >= 1

\* the tile shape of the send() that just took the tiling branch
SentShape == TileShape(width, height,
                       PixelsPerPacket(packet_limit, header_len, footer_len))

\* the last call was a send() that took the tiling branch and built tiles
TiledSend ==
  /\ last_op = "send"
  /\ NeedsTiling(buffer_size, packet_limit)
  /\ SentShape.raise = "none"

\* the bytes of b from position p on are the sequence s
BytesAre(b, p, s) == \A i \in 1..Len(s) : ByteAt(b, p + i - 1) = s[i]

\* b is header, payload, footer for the w x h rectangle of the grid d at
\* <<x, y>> on layer l, and nothing else
LaidOut(b, d, x, y, w, h, l) ==
  LET hd == Header(w, h)
      fo == Footer(x, y, l)
  IN /\ b.len = Len(hd) + 3 * w * h + Len(fo)
     /\ BytesAre(b, 0, hd)
     /\ BytesAre(b, b.len - Len(fo), fo)
     /\ \A p \in DOMAIN b.nz :
          (p >= Len(hd) /\ p < Len(hd) + 3 * w * h) =>
             LET i == p - Len(hd)
             IN b.nz[p] = PixelAt(d, x + ((i \div 3) % w), y + ((i \div 3) \div w))[(i % 3) + 1]
     /\ \A k \in DOMAIN d :
          (k[2] >= x /\ k[2] < x + w /\ k[1] >= y /\ k[1] < y + h) =>
             \A c \in 0..2 :
                ByteAt(b, Len(hd) + ((k[1] - y) * w + (k[2] - x)) * 3 + c) = d[k][c + 1]

\* C11: every tile datagram of a tiled send() is the header "P6\n<w> <h>\n255\n",
\* then the w*h*3 payload bytes of the grid rectangle at its offsets in
\* row-major RGB order, then the footer "<x>\n<y>\n<layer>\n", with w and h
\* the tile shape clipped at the canvas edge and the encoder's layer; its
\* length is the sum of the three parts.
C11_TileLayout ==
  TiledSend =>
     \A k \in 1..Len(out) :
        LET f == Decode(out[k])
            w == Min(SentShape.tw, width - f.x)
            h == Min(SentShape.th, height - f.y)
        IN /\ f.ok
           /\ f.x >= 0 /\ f.x < width /\ f.y >= 0 /\ f.y < height
           /\ f.layer = layer
           /\ LaidOut(out[k], data, f.x, f.y, w, h, layer)

\* a tiled send handed over a clipped tile that carries a lit pixel
C11_Witness ==
  /\ TiledSend
  /\ \E k \in 1..Len(out) :
       /\ Decode(out[k]).x > 0
       /\ Decode(out[k]).w < SentShape.tw
       /\ ~PayloadAllZero(out[k])

\* ceil(a / b) for a >= 0, b >= 1
CeilDiv(a, b) == (a + b - 1) \div b

\* C12: a tiled send() that returns emits ceil(W/tileWidth) *
\* ceil(H/tileHeight) datagrams; every footer x offset is a multiple of
\* tileWidth, every footer y offset a multiple of tileHeight; a tile
\* narrower than tileWidth is in the last column, one lower than tileHeight
\* in the last row.
C12_TileCountAndOffsets ==
  (TiledSend /\ err = "none") =>
     LET tw == SentShape.tw
         th == SentShape.th
     IN /\ Len(out) = CeilDiv(width, tw) * CeilDiv(height, th)
        /\ \A k \in 1..Len(out) :
             LET f == Decode(out[k])
             IN /\ f.x % tw = 0
                /\ f.y % th = 0
                /\ f.w <= tw /\ f.h <= th
                /\ f.w < tw => f.x = (CeilDiv(width, tw) - 1) * tw
                /\ f.h < th => f.y = (CeilDiv(height, th) - 1) * th

\* the display of the web controller, 192 x 128, went out as two tiles, the
\* second one at x offset 170 and clipped
C12_Witness ==
  /\ TiledSend /\ err = "none" /\ packet_limit = MAX_UDP_PACKET
  /\ width = 192 /\ height = 128
  /\ Len(out) = 2
  /\ Decode(out[2]).x = 170 /\ Decode(out[2]).w = 22

\* the origin <<x1, y1>> comes before <<x2, y2>> in row-major order
RowMajorBefore(x1, y1, x2, y2) == y1 < y2 \/ (y1 = y2 /\ x1 < x2)

\* C13: the tiles of one tiled send() reach the socket in row-major order
\* of their origins: the j-th is handed over before the k-th exactly when
\* its origin is lower in y, or equal in y and lower in x; no origin is
\* sent twice.
C13_TilesInRowMajorOrder ==
  TiledSend =>
     \A j, k \in 1..Len(out) :
        LET f == Decode(out[j])
            g == Decode(out[k])
        IN /\ (j < k) <=> RowMajorBefore(f.x, f.y, g.x, g.y)
           /\ (j # k) => <<f.x, f.y>> # <<g.x, g.y>>

\* the four tiles of the canvas 200 x 150 went out: two rows of two
C13_Witness ==
  /\ TiledSend /\ err = "none"
  /\ width = 200 /\ height = 150
  /\ Len(out) = 4
  /\ Decode(out[2]).y = Decode(out[1]).y /\ Decode(out[2]).x > Decode(out[1]).x
  /\ Decode(out[3]).y > Decode(out[2]).y /\ Decode(out[3]).x < Decode(out[2]).x

\* C14: when send() tiles a canvas, the tile shape is tileHeight =
\* min(H, floor(sqrt(budget))), tileWidth = min(W, floor(budget /
\* tileHeight)) with budget = floor((limit - headerLen - footerLen) / 3),
\* headerLen and footerLen those of the whole frame; tileWidth * tileHeight
\* <= budget, the first tile has exactly that shape and none is larger.
C14_TileShapeWithinBudget ==
  (/\ last_op = "send" /\ FullFrameSize > packet_limit
   /\ width >= 1 /\ height >= 1
   /\ (packet_limit - Len(Header(width, height)) - Len(Footer(0, 0, layer))) \div 3 >= 1) =>
     LET budget == (packet_limit - Len(Header(width, height))
                      - Len(Footer(0, 0, layer))) \div 3
         tileHeight == Min(height, ISqrt(budget))
         tileWidth == Min(width, budget \div tileHeight)
     IN /\ err \in {"none", "OSError"}
        /\ tileHeight >= 1 /\ tileWidth >= 1
        /\ tileWidth * tileHeight <= budget
        /\ Len(out) >= 1
        /\ Decode(out[1]).w = tileWidth /\ Decode(out[1]).h = tileHeight
        /\ \A k \in 1..Len(out) :
             Decode(out[k]).w <= tileWidth /\ Decode(out[k]).h <= tileHeight

\* under the shipped limit the canvas 200 x 150 went out in tiles of
\* 148 x 147: the height is bounded by the square root, not by the canvas
C14_Witness ==
  /\ last_op = "send" /\ packet_limit = MAX_UDP_PACKET
  /\ width = 200 /\ height = 150
  /\ Len(out) >= 1
  /\ Decode(out[1]).w = 148 /\ Decode(out[1]).h = 147

\* the encoder is the one matrix_effect.py builds by default
IsMatrixCanvas ==
  /\ pc = "ready" /\ packet_limit = MAX_UDP_PACKET
  /\ <<width, height, layer, transparent>> = MatrixCanvas

\* C15: the frame of the 45 x 35 canvas on layer 2 is 45*35*3 + 13 + 6 =
\* 4744 bytes, below 65507; send() hands exactly one datagram of that
\* length to the socket, starting with "P6\n45 35\n255\n" and ending with
\* "0\n0\n2\n".
C15_MatrixCanvasOneDatagram ==
  (IsMatrixCanvas /\ last_op = "send") =>
     /\ buffer_size = 45 * 35 * 3 + 13 + 6
     /\ buffer_size < 65507
     /\ Len(out) = 1
     /\ out[1].len = buffer_size
     /\ BytesAre(out[1], 0, <<80, 54, 10, 52, 53, 32, 51, 53, 10, 50, 53, 53, 10>>)
     /\ BytesAre(out[1], out[1].len - 6, <<48, 10, 48, 10, 50, 10>>)

\* the matrix canvas was sent with a lit pixel in its last row
C15_Witness ==
  /\ IsMatrixCanvas /\ SendReturned
  /\ Len(out) = 1
  /\ \E k \in DOMAIN data : k[1] = 34 /\ ~PayloadAllZero(out[1])

\* the k-th datagram of a send() of the grid d, as the attributes alone
\* determine it: the whole canvas, or the k-th tile in row-major order
DeterminedBy(b, k, d) ==
  IF NeedsTiling(buffer_size, packet_limit)
  THEN LET tw == SentShape.tw
           th == SentShape.th
           nx == CeilDiv(width, tw)
           x == ((k - 1) % nx) * tw
           y == ((k - 1) \div nx) * th
       IN LaidOut(b, d, x, y, Min(tw, width - x), Min(th, height - y), layer)
  ELSE k = 1 /\ LaidOut(b, d, 0, 0, width, height, layer)

C16_Step ==
  last_op' = "send" =>
     /\ data' = data
     /\ width' = width /\ height' = height
     /\ layer' = layer /\ transparent' = transparent
     /\ \A k \in 1..Len(out') : DeterminedBy(out'[k], k, data)
     /\ err' = "none" =>
          Len(out') = IF NeedsTiling(buffer_size, packet_limit)
                      THEN CeilDiv(width, SentShape.tw) * CeilDiv(height, SentShape.th)
                      ELSE 1

\* C16: send(), whether it returns or raises, in the single-datagram and in
\* the tiled path, leaves the grid, width, height, layer and transparent as
\* they were, and every datagram it hands over is determined byte for byte
\* by those values at the call: nothing of an earlier send() shows in it.
C16_SendIsStateless == [][C16_Step]_vars

\* a single-datagram send() raised while the grid had a lit pixel, and the
\* send buffer of the encoder holds that frame
C16_Witness ==
  /\ last_op = "send" /\ err = "OSError"
  /\ ~NeedsTiling(buffer_size, packet_limit)
  /\ width >= 1 /\ height >= 1
  /\ data # Zeros
  /\ Len(out) = 1 /\ accepted = 0
  /\ bytedata = out[1]

(* ------------------------- matrix_effect.py --------------------------- *)

\* mutant of ExitCode: main returns 0 whatever happened
ExitCodeZero(interrupted) == 0

\* "return 0 if not interrupt_received else 1"
ExitCode(interrupted) == IF interrupted THEN 1 ELSE 0

\* the arguments --width, --height, --layer main is run with; it leaves
\* the transparent flag of the encoder at False
EffectCanvases == {c \in Canvases(MAX_UDP_PACKET) : ~c[4]}

EffectInit ==
  /\ NoEncoder
  /\ packet_limit = MAX_UDP_PACKET
  /\ MainStarted(TRUE)

\* "ft = flaschen_np.FlaschenNP(...)": an exception here is raised before
\* the try statement is entered
EffectConstruct(c) ==
  /\ effect.pc = "args"
  /\ ConstructBody(c[1], c[2], c[3], c[4])
  /\ effect' = IF err' = "none" THEN [effect EXCEPT !.pc = "clear"]
               ELSE [effect EXCEPT !.pc = "failed", !.exc = err']
  /\ UNCHANGED <<kvars, dvars>>

\* ft.zero(): before the loop ("clear"), at the start of a frame ("frame")
\* and in the finally clause ("fzero")
EffectZero ==
  /\ effect.pc \in {"clear", "frame", "fzero"}
  /\ ZeroBody
  /\ effect' = [effect EXCEPT !.pc = IF @ = "clear" THEN "test"
                                     ELSE IF @ = "frame" THEN "draw"
                                     ELSE "fsend"]
  /\ UNCHANGED <<kvars, dvars>>

\* "while not interrupt_received and (time.time() - start_time) <=
\* args.time": over says the run time is exceeded
EffectTest ==
  /\ effect.pc = "test"
  /\ \E over \in BOOLEAN :
       effect' = [effect EXCEPT !.pc = IF effect.interrupt_received \/ over
                                       THEN "fzero" ELSE "frame"]
  /\ UNCHANGED <<evars, kvars, dvars>>

\* a raindrop pixel is drawn: ft.set(drop.x, y, color), with x and y on
\* the canvas
EffectDraw(x, y, color) ==
  /\ effect.pc = "draw"
  /\ ~OutOfBounds(x, y, width, height)
  /\ SetBody(x, y, color)
  /\ UNCHANGED cvars

\* ft.send(), at the end of a frame ("draw") or in the finally clause
\* ("fsend").  An OSError in the loop passes through the finally clause;
\* an exception that is pending when the finally clause ends, or that the
\* clause raises itself, leaves main in place of the return
EffectSend ==
  /\ effect.pc \in {"draw", "fsend"}
  /\ SendBody
  /\ effect' =
       IF effect.pc = "draw"
       THEN (IF err' = "none" THEN [effect EXCEPT !.pc = "test"]
             ELSE [effect EXCEPT !.pc = "fzero", !.exc = err'])
       ELSE IF err' # "none"
       THEN [effect EXCEPT !.pc = "done", !.exc = err']
       ELSE IF effect.exc # "none"
       THEN [effect EXCEPT !.pc = "done"]
       ELSE [effect EXCEPT !.pc = "done", !.returned = TRUE,
                           !.ret = ExitCode(effect.interrupt_received)]
  /\ UNCHANGED <<kvars, dvars>>

\* SIGINT or SIGTERM arrives: signal_handler sets interrupt_received
EffectSignal ==
  /\ effect.pc \notin {"done", "failed"}
  /\ ~effect.interrupt_received
  /\ effect' = [effect EXCEPT !.interrupt_received = TRUE]
  /\ UNCHANGED <<evars, kvars, dvars>>

EffectNext ==
  \/ \E c \in EffectCanvases : EffectConstruct(c)
  \/ EffectZero
  \/ EffectTest
  \/ \E x \in XCoords(width), y \in YCoords(height), c \in Colors : EffectDraw(x, y, c)
  \/ EffectSend
  \/ EffectSignal

EffectSpec == EffectInit /\ [][EffectNext]_vars

(* --------------------------- the controller --------------------------- *)

\* a child process: st is "running", "frozen" (stopped by SIGSTOP) or
\* "exited"; term says SIGTERM was sent and the child has not acted on it
Child(st, term) == [st |-> st, term |-> term]

\* matrix_process and matrix_process.poll() is None, for the process p
Alive(p) == p # 0 /\ procs[p].st # "exited"

\* mutant of Signalled: SIGCONT does not resume a frozen child
SignalledNoCont(p, sig) ==
  IF ~Alive(p) THEN procs
  ELSE [procs EXCEPT ![p] =
          IF sig = "SIGSTOP" THEN Child("frozen", @.term)
          ELSE IF sig = "SIGCONT" THEN Child(@.st, @.term)
          ELSE Child(@.st, TRUE)]

\* the children after the signal sig is sent to p; a frozen child acts on
\* SIGTERM only once SIGCONT has resumed it
Signalled(p, sig) ==
  IF ~Alive(p) THEN procs
  ELSE [procs EXCEPT ![p] =
          IF sig = "SIGSTOP" THEN Child("frozen", @.term)
          ELSE IF sig = "SIGCONT" THEN Child("running", @.term)
          ELSE Child(@.st, TRUE)]

\* matrix_effect.py leaves its main loop: interrupt_received was set by
\* SIGTERM, or the run time is over
ChildExits(p) ==
  /\ p \in DOMAIN procs
  /\ procs[p].st = "running"
  /\ procs' = [procs EXCEPT ![p] = Child("exited", FALSE)]
  /\ UNCHANGED <<animation_state, matrix_process, active_hours, anim, req, sched>>
  /\ UNCHANGED <<evars, dvars, effect, svars, cmd, color_change_event>>

\* the clock passes start_time or end_time
Tick ==
  /\ active_hours' = ~active_hours
  /\ UNCHANGED <<animation_state, matrix_process, procs, anim, req, sched>>
  /\ UNCHANGED <<evars, dvars, effect, svars, cmd, color_change_event>>

\* the steps of "if matrix_process and matrix_process.poll() is None:
\* matrix_process.terminate(); matrix_process.wait(); matrix_process = None"
\* for a thread at t: every statement reads the global anew;
\* None.terminate() and None.wait() raise AttributeError.  Terminated(t) is
\* where the thread is after its step, Terminates(t) what the step does
Terminated(t) ==
  IF t.pc = "term"
  THEN [t EXCEPT !.pc = IF matrix_process = 0 THEN "raised" ELSE "wait"]
  ELSE IF t.pc = "wait"
  THEN (IF matrix_process = 0 THEN [t EXCEPT !.pc = "raised"]
        ELSE [t EXCEPT !.pc = "waiting", !.w = matrix_process])
  ELSE IF t.pc = "waiting" THEN [t EXCEPT !.pc = "clear", !.w = 0]
  ELSE [t EXCEPT !.pc = "after"]

Terminates(t) ==
  \/ /\ t.pc = "term"
     /\ procs' = IF matrix_process = 0 THEN procs
                 ELSE Signalled(matrix_process, "SIGTERM")
     /\ UNCHANGED matrix_process
  \/ /\ t.pc = "wait"
     /\ UNCHANGED <<matrix_process, procs>>
  \/ /\ t.pc = "waiting"
     /\ procs[t.w].st = "exited"
     /\ UNCHANGED <<matrix_process, procs>>
  \/ /\ t.pc = "clear"
     /\ matrix_process' = 0
     /\ UNCHANGED procs

\* get_color_code: the --color argument for a color name
get_color_code(color_name) ==
  IF color_name = "green" THEN "00ff00"
  ELSE IF color_name = "red" THEN "ff0000"
  ELSE IF color_name = "blue" THEN "00aaff"
  ELSE IF color_name = "yellow" THEN "ffff00"
  ELSE IF color_name = "random" THEN "random"
  ELSE "00ff00"

\* the argument list of Popen for the color name c
Cmd(c) == [width |-> DISPLAY_WIDTH, height |-> DISPLAY_HEIGHT,
           layer |-> DISPLAY_LAYER, color |-> get_color_code(c)]

\* mutant of NeedsSpawn: a child that has exited is not replaced
NeedsSpawnFirstOnly == matrix_process = 0

\* "if matrix_process is None or matrix_process.poll() is not None"
NeedsSpawn == ~Alive(matrix_process)

\* the end of a pass of the loop: "if color_change_event.is_set()"
Passed == [pc |-> IF color_change_event THEN "event" ELSE "top",
           w |-> 0, c |-> "none"]

\* one step of run_matrix_animation.  In state "Running" the thread reads
\* current_color at the top of the pass (c) and builds cmd from it; at
\* "event" it consumes the color change event
AnimStep ==
  /\ UNCHANGED <<animation_state, active_hours, req, sched>>
  /\ UNCHANGED <<evars, dvars, effect, svars>>
  /\ \/ /\ anim.pc = "top"
        /\ anim' = IF animation_state = "Running"
                   THEN [anim EXCEPT !.pc = "spawn", !.c = current_color]
                   ELSE IF animation_state # "Paused" /\ Alive(matrix_process)
                   THEN [anim EXCEPT !.pc = "term"]
                   ELSE Passed
        /\ UNCHANGED <<matrix_process, procs, cmd, color_change_event>>
     \/ /\ anim.pc = "spawn"
        /\ IF NeedsSpawn
           THEN /\ Len(procs) < MaxProc
                /\ procs' = Append(procs, Child("running", FALSE))
                /\ matrix_process' = Len(procs) + 1
                /\ cmd' = Cmd(anim.c)
                /\ color_change_event' = FALSE
                /\ anim' = [Passed EXCEPT !.pc = "top"]
           ELSE /\ anim' = Passed
                /\ UNCHANGED <<matrix_process, procs, cmd, color_change_event>>
     \/ /\ anim.pc = "event"
        /\ color_change_event' = FALSE
        /\ anim' = [Passed EXCEPT !.pc = "top"]
        /\ UNCHANGED <<matrix_process, procs, cmd>>
     \/ /\ Terminates(anim)
        /\ anim' = LET t2 == Terminated(anim)
                   IN IF t2.pc = "after" THEN Passed
                      ELSE IF t2.pc = "raised" THEN [t2 EXCEPT !.pc = "dead"]
                      ELSE t2
        /\ UNCHANGED <<cmd, color_change_event>>

\* a request POST /control {"action": a} reaches an idle worker; the
\* workers are alike, so the lowest idle one takes it
Request(h, a) ==
  /\ req[h] = Idle
  /\ \A g \in Reqs : g < h => req[g] # Idle
  /\ req' = [req EXCEPT ![h] = [Idle EXCEPT !.pc = "begin", !.act = a]]
  /\ UNCHANGED <<animation_state, matrix_process, procs, active_hours, anim, sched>>
  /\ UNCHANGED <<evars, dvars, effect, svars, cmd, color_change_event>>

\* mutant of MayStart: the window is not looked at
MayStartAlways(active) == TRUE

\* "if start_time <= current_time < end_time": a 'start' in "Blank" is
\* allowed when the clock is inside the active window
MayStart(active) == active

\* mutant of PauseApplies: only "Stopped" is left alone
PauseAppliesUnlessStopped(st) == st # "Stopped"

\* "if animation_state == "Running":" under action == 'pause'
PauseApplies(st) == st = "Running"

\* control_animation up to its first write of animation_state, for the
\* request of worker h.  The handler answers with the status ("status"),
\* or with the status and the error "Cannot start during off hours"
\* ("off hours")
Begins(h) ==
  LET r == req[h]
      to(p) == req' = [req EXCEPT ![h] = [r EXCEPT !.pc = p]]
      kill == to(IF Alive(matrix_process) THEN "term" ELSE "after")
      reply(x) == req' = [req EXCEPT ![h] = [r EXCEPT !.pc = "reply", !.res = x]]
      same == UNCHANGED <<animation_state, matrix_process, procs>>
  IN /\ r.pc = "begin"
     /\ IF r.act \in {"blank", "stop"} THEN kill /\ same
        ELSE IF r.act = "start" THEN
          IF animation_state = "Blank" THEN
            /\ animation_state' = IF MayStart(active_hours) THEN "Running"
                                  ELSE animation_state
            /\ reply(IF MayStart(active_hours) THEN "status" ELSE "off hours")
            /\ UNCHANGED <<matrix_process, procs>>
          ELSE IF animation_state = "Paused" THEN
            /\ procs' = Signalled(matrix_process, "SIGCONT")
            /\ to("after")
            /\ UNCHANGED <<animation_state, matrix_process>>
          ELSE IF animation_state = "Stopped" THEN kill /\ same
          ELSE to("after") /\ same
        ELSE IF r.act = "pause" /\ PauseApplies(animation_state) THEN
            /\ procs' = Signalled(matrix_process, "SIGSTOP")
            /\ to("after")
            /\ UNCHANGED <<animation_state, matrix_process>>
        ELSE reply("status") /\ same

\* the write of animation_state that ends control_animation
Ends(h) ==
  /\ req[h].pc = "after"
  /\ animation_state' =
       IF req[h].act = "blank" THEN "Blank"
       ELSE IF req[h].act = "start" THEN "Running"
       ELSE IF req[h].act = "pause" THEN "Paused"
       ELSE IF active_hours THEN "Stopped" ELSE "Blank"
  /\ req' = [req EXCEPT ![h] = [@ EXCEPT !.pc = "reply", !.res = "status"]]
  /\ UNCHANGED <<matrix_process, procs>>

\* the handler returns: its response is sent and the worker is free again
Replies(h) ==
  /\ req[h].pc = "reply"
  /\ req' = [req EXCEPT ![h] = Idle]
  /\ UNCHANGED <<animation_state, matrix_process, procs>>

\* one step of control_animation in worker h; an AttributeError that the
\* handler raises is answered by Flask with status 500
ReqStep(h) ==
  /\ UNCHANGED <<active_hours, anim, sched>>
  /\ UNCHANGED <<evars, dvars, effect, svars, cmd, color_change_event>>
  /\ \/ Begins(h)
     \/ Ends(h)
     \/ Replies(h)
     \/ /\ Terminates(req[h])
        /\ req' = [req EXCEPT ![h] =
                     LET t2 == Terminated(req[h])
                     IN IF t2.pc = "raised"
                        THEN [t2 EXCEPT !.pc = "reply", !.res = "AttributeError"]
                        ELSE t2]
        /\ UNCHANGED animation_state

\* one pass of the loop of run_scheduler: at "run" it compares the clock
\* with the window and reads animation_state; at "set" it has read "Blank"
\* inside the window and writes "Stopped" (and then clears the layers and
\* shows the QR code).  The read and the write are two accesses to the
\* global: where the interpreter may switch threads after any bytecode
\* (CPython up to 3.9) another thread can run between them.
\* matrix_process is assigned in the function and not declared global
\* there, so it is a local name: the read "if matrix_process and ..."
\* raises UnboundLocalError and the thread ends
SchedCheck ==
  /\ \/ /\ sched = "run"
        /\ sched' = IF active_hours
                    THEN (IF animation_state = "Blank" THEN "set" ELSE "run")
                    ELSE (IF animation_state # "Blank" THEN "dead" ELSE "run")
        /\ UNCHANGED animation_state
     \/ /\ sched = "set"
        /\ animation_state' = "Stopped"
        /\ sched' = "run"
  /\ UNCHANGED <<matrix_process, procs, active_hours, anim, req>>
  /\ UNCHANGED <<evars, dvars, effect, svars, cmd, color_change_event>>

\* the actions of POST /control; "other" is any action that is not one
\* of the four the handler knows
Actions == {"start", "pause", "stop", "blank", "other"}

CtlInit ==
  /\ NoEncoder
  /\ packet_limit = MAX_UDP_PACKET
  /\ \E a \in BOOLEAN : MainStarted(a)

CtlNext ==
  \/ AnimStep
  \/ SchedCheck
  \/ \E h \in Reqs, a \in Actions : Request(h, a)
  \/ \E h \in Reqs : ReqStep(h)
  \/ \E p \in 1..MaxProc : ChildExits(p)
  \/ Tick

CtlSpec == CtlInit /\ [][CtlNext]_vars

\* the threads are scheduled again and again, and a child that has
\* received SIGTERM and is not frozen exits.  A child that is left alone
\* may run on: its run time is 24 hours
CtlFair ==
  /\ WF_vars(AnimStep)
  /\ WF_vars(SchedCheck)
  /\ \A h \in Reqs : WF_vars(ReqStep(h))
  /\ \A p \in 1..MaxProc : WF_vars(ChildExits(p) /\ procs[p].term)

CtlFairSpec == CtlSpec /\ CtlFair

\* a request POST /color {"color": c} reaches a worker
ColorRequest(c) ==
  /\ web = WebIdle
  /\ web' = [WebIdle EXCEPT !.pc = "color", !.arg = c]
  /\ UNCHANGED <<animation_state, matrix_process, procs, active_hours,
                 anim, req, sched>>
  /\ UNCHANGED <<current_color, color_change_event, start_time, end_time,
                 settings, cmd>>
  /\ UNCHANGED <<evars, dvars, effect>>

\* one step of change_color: the assignment of current_color, then
\* save_settings(), then color_change_event.set() and the response, which
\* carries current_color
ColorStep ==
  /\ \/ /\ web.pc = "color"
        /\ current_color' = web.arg
        /\ web' = [web EXCEPT !.pc = "save"]
        /\ UNCHANGED <<settings, color_change_event>>
     \/ /\ web.pc = "save"
        /\ settings' = SavedSettings(current_color, start_time, end_time)
        /\ web' = [web EXCEPT !.pc = "notify"]
        /\ UNCHANGED <<current_color, color_change_event>>
     \/ /\ web.pc = "notify"
        /\ color_change_event' = TRUE
        /\ web' = [web EXCEPT !.pc = "reply", !.res = current_color]
        /\ UNCHANGED <<current_color, settings>>
     \/ /\ web.pc = "reply" /\ web.arg \in ColorNames
        /\ web' = WebIdle
        /\ UNCHANGED <<current_color, settings, color_change_event>>
  /\ UNCHANGED <<animation_state, matrix_process, procs, active_hours,
                 anim, req, sched, start_time, end_time, cmd>>
  /\ UNCHANGED <<evars, dvars, effect>>

\* no request is being served: a client that waits for each answer sends
\* its next request now
Served == web = WebIdle /\ \A h \in Reqs : req[h] = Idle

\* the controller with one client, which sends control and color requests
\* one after the other, next to the animation thread, the scheduler, the
\* children and the clock
ColorNext ==
  \/ AnimStep
  \/ SchedCheck
  \/ \E h \in Reqs, a \in Actions : Served /\ Request(h, a)
  \/ \E h \in Reqs : ReqStep(h)
  \/ \E c \in ColorNames : Served /\ ColorRequest(c)
  \/ ColorStep
  \/ \E p \in 1..MaxProc : ChildExits(p)
  \/ Tick

ColorSpec == CtlInit /\ [][ColorNext]_vars

ColorFairSpec ==
  /\ ColorSpec
  /\ WF_vars(AnimStep) /\ WF_vars(SchedCheck) /\ WF_vars(ColorStep)
  /\ \A h \in Reqs : WF_vars(ReqStep(h))
  /\ \A p \in 1..MaxProc : WF_vars(ChildExits(p) /\ procs[p].term)

(* ------------------------ POST /schedule ------------------------------ *)

Digits == {"0", "1", "2", "3", "4", "5", "6", "7", "8", "9"}

\* the number a digit stands for
DigitValue(c) == CHOOSE n \in 0..9 : <<"0", "1", "2", "3", "4", "5", "6", "7", "8", "9">>[n + 1] = c

\* a text of one or two digits that stands for a number up to top: what
\* the directives %H (top 23) and %M (top 59) of strptime accept
Field(t, top) ==
  /\ Len(t) \in {1, 2}
  /\ \A i \in 1..Len(t) : t[i] \in Digits
  /\ (IF Len(t) = 1 THEN DigitValue(t[1])
      ELSE 10 * DigitValue(t[1]) + DigitValue(t[2])) <= top

\* time.strptime(t, "%H:%M") returns for the text t (it raises ValueError
\* otherwise): an hour, a colon and a minute, and nothing else
Strptime(t) ==
  \E i \in 1..Len(t) :
     /\ t[i] = ":"
     /\ Field(SubSeq(t, 1, i - 1), 23)
     /\ Field(SubSeq(t, i + 1, Len(t)), 59)

\* a value of the request's JSON body: a text, a number, or no such key
Text(t) == [t |-> "str", v |-> t]
Number == [t |-> "num", v |-> <<>>]
Absent == [t |-> "absent", v |-> <<>>]

\* the texts a client sends as a time
TimeTexts ==
  { DefaultStart, DefaultEnd,
    <<"6", ":", "3", "0">>, <<"7", ":", "5">>,
    <<"2", "4", ":", "0", "0">>, <<"0", "6", ":", "6", "0">>,
    <<"0", "6", "3", "0">>, <<>> }

JsonValues == {Text(t) : t \in TimeTexts} \cup {Number, Absent}

\* data.get(key, default)
Get(value, default) == IF value = Absent THEN Text(default) ELSE value

\* a request POST /schedule with the body b reaches a worker
ScheduleRequest(b) ==
  /\ web = WebIdle
  /\ web' = [WebIdle EXCEPT !.pc = "schedule", !.arg = b]
  /\ UNCHANGED <<animation_state, matrix_process, procs, active_hours,
                 anim, req, sched>>
  /\ UNCHANGED <<current_color, color_change_event, start_time, end_time,
                 settings, cmd>>
  /\ UNCHANGED <<evars, dvars, effect>>

\* handle_schedule for POST: strptime raises TypeError for a value that
\* is not a text, which the handler does not catch (Flask answers 500),
\* and ValueError for a text it does not accept (the handler answers 400);
\* the first of the two calls that raises decides
ScheduleStep ==
  /\ \/ /\ web.pc = "schedule"
        /\ LET new_start_time == Get(web.arg.start_time, start_time)
               new_end_time == Get(web.arg.end_time, end_time)
               raised ==
                 IF new_start_time.t # "str" THEN "TypeError"
                 ELSE IF ~Strptime(new_start_time.v) THEN "ValueError"
                 ELSE IF new_end_time.t # "str" THEN "TypeError"
                 ELSE IF ~Strptime(new_end_time.v) THEN "ValueError"
                 ELSE "none"
           IN IF raised = "none"
              THEN /\ start_time' = new_start_time.v
                   /\ end_time' = new_end_time.v
                   /\ settings' = SavedSettings(current_color,
                                     new_start_time.v, new_end_time.v)
                   /\ web' = [web EXCEPT !.pc = "scheduled", !.res = "200"]
              ELSE /\ web' = [web EXCEPT !.pc = "scheduled",
                                 !.res = IF raised = "ValueError" THEN "400" ELSE "500"]
                   /\ UNCHANGED <<start_time, end_time, settings>>
     \/ /\ web.pc = "scheduled"
        /\ web' = WebIdle
        /\ UNCHANGED <<start_time, end_time, settings>>
  /\ UNCHANGED <<animation_state, matrix_process, procs, active_hours,
                 anim, req, sched, current_color, color_change_event, cmd>>
  /\ UNCHANGED <<evars, dvars, effect>>

ScheduleNext ==
  \/ \E s \in JsonValues, e \in JsonValues :
        ScheduleRequest([start_time |-> s, end_time |-> e])
  \/ ScheduleStep

ScheduleSpec == CtlInit /\ [][ScheduleNext]_vars

C17_Step ==
  (~active_hours /\ animation_state # "Blank" /\ sched = "run" /\ SchedCheck) =>
     /\ animation_state' = "Blank"
     /\ sched' = "run"

\* C17: a check of the scheduler outside the active window, with
\* animation_state other than "Blank", sets animation_state to "Blank" and
\* leaves the scheduler thread running.
C17_SchedulerBlanks == [][C17_Step]_vars

\* a 'start' request has sent SIGCONT and not yet written "Running"
Resuming == \E h \in Reqs : req[h].act = "start" /\ req[h].pc = "after"

\* C18: whenever animation_state is "Paused" (and no 'start' request is
\* between its SIGCONT and its write of "Running"), matrix_process is None,
\* has exited or is frozen by SIGSTOP.
C18_PausedMeansFrozen ==
  (animation_state = "Paused" /\ ~Resuming) =>
     \/ matrix_process = 0
     \/ procs[matrix_process].st \in {"exited", "frozen"}

\* C19: every child that has not exited is the one matrix_process refers
\* to, so at most one child is alive and none is left unreferenced.
C19_OneReferencedChild ==
  \A p \in DOMAIN procs : procs[p].st # "exited" => matrix_process = p

\* C20: a 'stop' request, whatever the state it arrives in, is answered:
\* its handler eventually returns.
C20_StopReturns ==
  \A h \in Reqs :
     (req[h].pc = "begin" /\ req[h].act = "stop") ~> (req[h] = Idle)

\* C21: a 'blank' request, whatever the state it arrives in, is carried
\* out: its handler eventually returns, and then no child that was alive
\* when it arrived is still alive and animation_state is "Blank".
C21_BlankReturns ==
  \A h \in Reqs :
     (req[h].pc = "begin" /\ req[h].act = "blank") ~> (req[h] = Idle)

C22_Step ==
  \A h \in Reqs :
     (/\ req[h].pc = "begin" /\ req[h].act = "start"
      /\ animation_state = "Blank"
      /\ ReqStep(h)) =>
        /\ req'[h].pc = "reply"
        /\ matrix_process' = matrix_process /\ procs' = procs
        /\ IF active_hours
           THEN animation_state' = "Running" /\ req'[h].res = "status"
           ELSE animation_state' = "Blank" /\ req'[h].res = "off hours"

\* C22: a 'start' request that finds animation_state "Blank" outside the
\* active window is answered with the error "Cannot start during off
\* hours" and leaves animation_state "Blank" and the process untouched;
\* inside the window it sets animation_state to "Running".
C22_StartInBlank == [][C22_Step]_vars

C22_Witness ==
  \E h \in Reqs :
     /\ req[h] = [pc |-> "reply", act |-> "start", w |-> 0, res |-> "off hours"]
     /\ animation_state = "Blank" /\ ~active_hours

C23_Step ==
  (active_hours /\ SchedCheck) =>
     /\ \/ animation_state = "Blank" /\ animation_state' = "Stopped"
        \/ animation_state' = animation_state
     /\ matrix_process' = matrix_process /\ procs' = procs

\* C23: inside the active window the scheduler changes animation_state
\* only from "Blank" to "Stopped" (and then shows the QR code); it leaves
\* "Running", "Paused" and "Stopped" as they are and terminates no process.
C23_SchedulerInWindow == [][C23_Step]_vars

\* worker h is about to run control_animation for action a, with
\* animation_state st
Handles(h, a, st) ==
  req[h].pc = "begin" /\ req[h].act = a /\ animation_state = st

C26_Step ==
  \A h \in Reqs :
     /\ (Handles(h, "pause", "Running") /\ Alive(matrix_process) /\ ReqStep(h)) =>
           /\ procs' = [procs EXCEPT ![matrix_process].st = "frozen"]
           /\ matrix_process' = matrix_process
           /\ req'[h].pc = "after"
     /\ (Handles(h, "start", "Paused") /\ Alive(matrix_process) /\ ReqStep(h)) =>
           /\ procs' = [procs EXCEPT ![matrix_process].st = "running"]
           /\ matrix_process' = matrix_process
           /\ req'[h].pc = "after"
     /\ (req[h].pc = "after" /\ req[h].act \in {"pause", "start"} /\ ReqStep(h)) =>
           /\ animation_state' = IF req[h].act = "pause" THEN "Paused" ELSE "Running"
           /\ matrix_process' = matrix_process /\ procs' = procs
           /\ req'[h].pc = "reply" /\ req'[h].res = "status"

\* C26: a 'pause' request in state "Running" sends SIGSTOP to the live
\* child and sets animation_state to "Paused"; a 'start' request in state
\* "Paused" sends SIGCONT to the child matrix_process refers to and sets
\* "Running"; neither terminates the child or spawns another.
C26_PauseAndResume == [][C26_Step]_vars

C26_Witness ==
  \E h \in Reqs :
     /\ req[h].pc = "after" /\ req[h].act = "start"
     /\ animation_state = "Paused"
     /\ Alive(matrix_process)
     /\ procs[matrix_process] = Child("running", FALSE)
     /\ Len(procs) = 1

C27_Step ==
  \A h \in Reqs :
     (/\ req[h].pc = "begin"
      /\ \/ req[h].act = "pause" /\ animation_state # "Running"
         \/ req[h].act = "other"
      /\ ReqStep(h)) =>
        /\ animation_state' = animation_state
        /\ matrix_process' = matrix_process /\ procs' = procs
        /\ req'[h].pc = "reply" /\ req'[h].res = "status"

\* C27: a 'pause' request in state "Paused", "Stopped" or "Blank", and a
\* request with an action the handler does not know, change neither
\* animation_state nor matrix_process and send no signal: the handler
\* only answers with the status.
C27_PauseOnlyWhenRunning == [][C27_Step]_vars

C27_Witness ==
  \E h \in Reqs :
     /\ req[h] = [pc |-> "reply", act |-> "pause", w |-> 0, res |-> "status"]
     /\ animation_state = "Paused"
     /\ Alive(matrix_process) /\ procs[matrix_process].st = "frozen"

\* the animation thread is where it starts a child if none is alive
Spawning == anim.pc = "spawn" /\ NeedsSpawn

C24_Step ==
  (Spawning /\ AnimStep) =>
     /\ matrix_process' = Len(procs) + 1
     /\ procs' = Append(procs, Child("running", FALSE))
     /\ cmd' = [width |-> 192, height |-> 128, layer |-> 2,
                color |-> IF anim.c = "red" THEN "ff0000" ELSE "00ff00"]

C28_Step ==
  /\ ColorStep =>
        /\ animation_state' = animation_state
        /\ matrix_process' = matrix_process /\ procs' = procs /\ cmd' = cmd
        /\ web.pc = "color" => current_color' = web.arg
        /\ web.pc = "save" => settings'.color = current_color
        /\ web.pc = "notify" => color_change_event'
  /\ (anim.pc = "event" /\ AnimStep) =>
        /\ animation_state' = animation_state
        /\ matrix_process' = matrix_process /\ procs' = procs /\ cmd' = cmd
        /\ ~color_change_event' /\ anim'.pc = "top"

\* C28: change_color sets current_color, saves the settings and sets
\* color_change_event; neither its steps nor the step of the animation
\* thread that consumes the event change animation_state or
\* matrix_process, or terminate, signal or spawn a child.
C28_ColorKeepsProcess ==
  /\ [][C28_Step]_vars
  /\ [](web.pc = "reply" =>
          current_color = web.arg /\ settings.color = web.arg /\ web.res = web.arg)

C28_Witness ==
  /\ web = [pc |-> "reply", arg |-> "red", res |-> "red"]
  /\ ~color_change_event /\ anim.pc = "top"
  /\ animation_state = "Running"
  /\ procs = <<Child("running", FALSE)>> /\ matrix_process = 1
  /\ cmd = Cmd("green")

\* a text of the form HH:MM: two digits, a colon, two digits, the hour up
\* to 23 and the minute up to 59
HHMM(x) ==
  /\ x.t = "str"
  /\ Len(x.v) = 5 /\ x.v[3] = ":"
  /\ \A i \in {1, 2, 4, 5} : x.v[i] \in Digits
  /\ 10 * DigitValue(x.v[1]) + DigitValue(x.v[2]) <= 23
  /\ 10 * DigitValue(x.v[4]) + DigitValue(x.v[5]) <= 59

C29_Step ==
  (web.pc = "schedule" /\ ScheduleStep) =>
     LET s == Get(web.arg.start_time, start_time)
         e == Get(web.arg.end_time, end_time)
     IN IF HHMM(s) /\ HHMM(e)
        THEN /\ start_time' = s.v /\ end_time' = e.v
             /\ settings' = [settings EXCEPT !.start_time = s.v, !.end_time = e.v]
             /\ web'.res = "200"
        ELSE /\ UNCHANGED <<start_time, end_time, settings>>
             /\ web'.res = "400"

\* C29: POST /schedule replaces and saves start_time and end_time when
\* both are times of the form HH:MM; otherwise it answers with status
\* 400, keeps both values and saves nothing.
C29_ScheduleAllOrNothing == [][C29_Step]_vars

\* the last call of the encoder was send(), and every datagram it handed
\* to the socket is well-formed, for the encoder's layer, and black
\* throughout; if the call returned, the datagrams cover the canvas
ClearedLast ==
  /\ last_op = "send"
  /\ \A k \in 1..Len(out) :
        /\ Decode(out[k]).ok
        /\ Decode(out[k]).layer = layer
        /\ PayloadAllZero(out[k])
  /\ err = "none" =>
        /\ Len(out) >= 1
        /\ AreaSum(out, Len(out)) = width * height

C30_Original ==
  effect.pc = "done" =>
     /\ ClearedLast
     /\ effect.returned
     /\ effect.ret = IF effect.interrupt_received THEN 1 ELSE 0

\* C30: when main of matrix_effect.py leaves its loop, by the run time,
\* by a signal or by an exception, the last frame it hands to the socket
\* is black throughout and for its layer.  When neither the loop nor that
\* last send raised, main returns 1 if interrupt_received is set and 0
\* otherwise; when one of them raised, the exception leaves main after
\* the clearing frame and main returns nothing.
C30_ClearsOnExit ==
  effect.pc = "done" =>
     /\ ClearedLast
     /\ IF effect.exc = "none"
        THEN /\ err = "none"
             /\ effect.returned
             /\ effect.ret = IF effect.interrupt_received THEN 1 ELSE 0
        ELSE ~effect.returned

C30_Witness ==
  /\ effect = [pc |-> "done", interrupt_received |-> TRUE,
               exc |-> "none", returned |-> TRUE, ret |-> 1]
  /\ width = DISPLAY_WIDTH /\ height = DISPLAY_HEIGHT
  /\ Len(out) = 2 /\ accepted = 2

(* ------------------ the controller's drawing operations ---------------- *)
(* draw_text, fill_screen and display_qr_code are called by the animation  *)
(* thread, the clock thread, the scheduler thread and the request handlers.*)
(* A producer takes one step per call it makes on a FlaschenNP object: the *)
(* calls are not atomic, but what a call does in between is seen only by a *)
(* thread that refers to the same object.                                  *)
(* The grids are 192 x 128; the model follows the content of the pixels in *)
(* Watched, and a drawing operation is given by the calls of set() that    *)
(* reach those pixels, in the order it makes them.                         *)

DISPLAY_TEXT_LAYER == 1
QR_CODE_LAYER == 2

\* the pixels that are followed, as <<x, y>>, in the order of the raster:
\* the first and the last pixel of the grid
Watched == <<<<0, 0>>, <<191, 127>>>>

Green == <<0, 255, 0>>
Red == <<255, 0, 0>>
White == <<255, 255, 255>>

\* the colours draw_text is called with (color_rgb)
TextColors == {Green, Red}

\* the calls set(x, y, col[i]) for the watched pixels i in S, in the order
\* of the raster
Calls(S, col) ==
  LET idx == SelectSeq([i \in 1..Len(Watched) |-> i], LAMBDA i : i \in S)
  IN [j \in 1..Len(idx) |->
        <<Watched[idx[j]][1], Watched[idx[j]][2], col[idx[j]]>>]

AllWatched == 1..Len(Watched)

\* fill_screen(color, layer): set() for every pixel, row by row
fill_screen(color, l) ==
  [op |-> "fill_screen", layer |-> l, clear |-> FALSE,
   plan |-> Calls(AllWatched, [i \in AllWatched |-> color])]

\* draw_text(text, color, clear_first=clear) on the text layer: zero() if
\* clear_first, then set() for the pixels of the glyphs, lit being the
\* watched pixels the text covers
draw_text(lit, color, clear) ==
  [op |-> "draw_text", layer |-> DISPLAY_TEXT_LAYER, clear |-> clear,
   plan |-> Calls(lit, [i \in AllWatched |-> color])]

\* display_qr_code(): zero(), then set() for the modules of the QR code,
\* black or white, and for the glyphs of the address, green; covered are the
\* watched pixels it reaches and col their colours
display_qr_code(covered, col) ==
  [op |-> "display_qr_code", layer |-> QR_CODE_LAYER, clear |-> TRUE,
   plan |-> Calls(covered, col)]

\* the drawing operations the producers call
DrawOps ==
  {fill_screen(Black, l) : l \in {DISPLAY_LAYER, DISPLAY_TEXT_LAYER, QR_CODE_LAYER}}
  \cup {draw_text(AllWatched, c, TRUE) : c \in TextColors}
  \cup {display_qr_code(AllWatched, [i \in AllWatched |-> IF i = 1 THEN m ELSE Green]) :
          m \in {Black, White}}

\* FlaschenNP(FT_HOST, FT_PORT, w, h, l): the object __init__ leaves
NewInstance(w, h, l) ==
  [live |-> TRUE, width |-> w, height |-> h, layer |-> l,
   transparent |-> FALSE, data |-> Zeros, out |-> <<>>]

\* mutant of Allocated: every constructor call hands out the same object
AllocatedShared(t) == 1

\* the object the constructor call of producer t returns: a new one, which
\* nothing refers to yet.  A producer holds one object at a time, so its
\* objects are told from all others by the place t
Allocated(t) == t

\* the datagrams send() builds from the object e
Datagrams(e) ==
  LET header == Header(e.width, e.height)
      footer == Footer(0, 0, e.layer)
      n == e.width * e.height * 3 + Len(header) + Len(footer)
      tiled == NeedsTiling(n, MAX_UDP_PACKET)
      shape == IF tiled
               THEN TileShape(e.width, e.height,
                              PixelsPerPacket(MAX_UDP_PACKET, Len(header), Len(footer)))
               ELSE [raise |-> "none", tw |-> e.width, th |-> e.height]
      bd == PutSeq(PutSeq(ByteArray(n), 0, header), n - Len(footer), footer)
  IN Frames(e.data, bd, e.width, e.height, e.layer, Len(header),
            shape.tw, shape.th, tiled)

\* the object the local name text_ft, fill_ft or qr_ft of producer t
\* refers to
Target(t) == draw[t].ref

\* where a producer goes on after k - 1 of its calls of set()
AfterSets(plan, k) == IF k > Len(plan) THEN "send" ELSE "set"

\* a producer enters a drawing operation and constructs its encoder
DrawCall(t, o) ==
  /\ draw[t].pc = "idle"
  /\ LET r == Allocated(t)
     IN /\ encoders' = [encoders EXCEPT
                          ![r] = NewInstance(DISPLAY_WIDTH, DISPLAY_HEIGHT, o.layer)]
        /\ draw' = [draw EXCEPT
                      ![t] = [pc |-> IF o.clear THEN "zero" ELSE AfterSets(o.plan, 1),
                              op |-> o.op, layer |-> o.layer, clear |-> o.clear,
                              plan |-> o.plan, k |-> 1, ref |-> r, exc |-> "none"]]
  /\ UNCHANGED <<ft, evars, kvars, effect>>

\* text_ft.zero(), qr_ft.zero()
DrawZero(t) ==
  /\ draw[t].pc = "zero"
  /\ encoders' = [encoders EXCEPT ![Target(t)].data = DataAfterZero(@)]
  /\ draw' = [draw EXCEPT ![t].pc = AfterSets(draw[t].plan, 1)]
  /\ UNCHANGED <<ft, evars, kvars, effect>>

\* text_ft.set(..), fill_ft.set(..), qr_ft.set(..): the next call of the
\* operation that reaches a watched pixel
DrawSet(t) ==
  /\ draw[t].pc = "set"
  /\ LET c == draw[t].plan[draw[t].k]
         e == encoders[Target(t)]
     IN encoders' = [encoders EXCEPT
                       ![Target(t)].data =
                          DataAfterSet(e.data, c[1], c[2], c[3],
                                       e.width, e.height, e.transparent)]
  /\ draw' = [draw EXCEPT ![t].k = @ + 1,
                          ![t].pc = AfterSets(draw[t].plan, draw[t].k + 1)]
  /\ UNCHANGED <<ft, evars, kvars, effect>>

\* text_ft.send(), fill_ft.send(), qr_ft.send(); the socket raises on the
\* fail-th datagram (fail = 0: on none)
DrawSend(t) ==
  /\ draw[t].pc = "send"
  /\ LET dgs == Datagrams(encoders[Target(t)])
     IN \E fail \in 0..Len(dgs) :
          /\ encoders' = [encoders EXCEPT
                            ![Target(t)].data = DataAfterSend(@),
                            ![Target(t)].out = Handed(dgs, fail)]
          /\ draw' = [draw EXCEPT
                        ![t].pc = "return",
                        ![t].exc = IF fail = 0 THEN "none" ELSE "OSError"]
  /\ UNCHANGED <<ft, evars, kvars, effect>>

\* the operation returns or its exception leaves it: the local name is
\* gone, and with it the object when nothing else refers to it
DrawReturn(t) ==
  /\ draw[t].pc = "return"
  /\ LET r == Target(t)
     IN encoders' = IF ft = r \/ \E u \in Producers \ {t} : Target(u) = r
                    THEN encoders
                    ELSE [encoders EXCEPT ![r] = NoInstance]
  /\ draw' = [draw EXCEPT ![t] = NotDrawing]
  /\ UNCHANGED <<ft, evars, kvars, effect>>

DrawInit ==
  /\ NoEncoder
  /\ packet_limit = MAX_UDP_PACKET
  /\ MainStarted(TRUE)

DrawNext ==
  \/ \E t \in Producers, o \in DrawOps : DrawCall(t, o)
  \/ \E t \in Producers : DrawZero(t)
  \/ \E t \in Producers : DrawSet(t)
  \/ \E t \in Producers : DrawSend(t)
  \/ \E t \in Producers : DrawReturn(t)

DrawSpec == DrawInit /\ [][DrawNext]_vars

\* the grid a producer's own calls have made so far: zeros from the
\* constructor or from zero(), then its first k - 1 calls of set()
RECURSIVE Painted(_, _)
Painted(plan, n) ==
  IF n = 0 THEN Zeros
  ELSE DataAfterSet(Painted(plan, n - 1), plan[n][1], plan[n][2], plan[n][3],
                    DISPLAY_WIDTH, DISPLAY_HEIGHT, FALSE)

\* producer t is the only one that refers to its encoder
Private(t) ==
  /\ Target(t) # ft
  /\ \A u \in Producers \ {t} : Target(u) # Target(t)

C31_Step ==
  \A s \in Slots :
    encoders'[s] # encoders[s] =>
      \E t \in Producers :
        /\ Target(t) = s \/ draw'[t].ref = s
        /\ draw'[t] # draw[t]
        /\ \A u \in Producers \ {t} :
             draw'[u] = draw[u] /\ Target(u) # s /\ draw'[u].ref # s

C31_Private ==
  /\ ft = None
  /\ \A s \in Slots : encoders[s].live => \E t \in Producers : Target(t) = s
  /\ \A t \in Producers :
       draw[t].pc # "idle" =>
         /\ Private(t)
         /\ encoders[Target(t)].live
         /\ encoders[Target(t)].layer = draw[t].layer
         /\ encoders[Target(t)].data = Painted(draw[t].plan, draw[t].k - 1)
         /\ draw[t].pc = "return" =>
              LET own == [NewInstance(DISPLAY_WIDTH, DISPLAY_HEIGHT, draw[t].layer)
                            EXCEPT !.data = Painted(draw[t].plan, Len(draw[t].plan))]
                  dgs == Datagrams(own)
              IN \E fail \in 0..Len(dgs) :
                   /\ encoders[Target(t)].out = Handed(dgs, fail)
                   /\ draw[t].exc = IF fail = 0 THEN "none" ELSE "OSError"

\* C31: no encoder of the controller is shared between producers.  Every
\* drawing operation (draw_text, fill_screen, display_qr_code) constructs
\* a FlaschenNP of its own, which no other thread and no global name
\* refers to; every zero(), set() and send() on it is made by the thread
\* that constructed it, so the grid is at any time what that thread's own
\* calls made it, and the datagrams of a send carry that grid on the
\* operation's layer and nothing of another thread's drawing.
C31_NoSharedEncoder == []C31_Private /\ [][C31_Step]_vars

\* two producers draw on the same layer at the same time: one has sent its
\* frame whole while the other, with a different picture, is about to send
C31_Witness ==
  \E t, u \in Producers :
    /\ t # u
    /\ draw[t].pc = "return" /\ draw[t].exc = "none"
    /\ draw[u].pc = "send"
    /\ draw[t].layer = draw[u].layer
    /\ Len(encoders[Target(t)].out) = 2
    /\ encoders[Target(t)].data # Zeros
    /\ encoders[Target(u)].data # Zeros
    /\ encoders[Target(t)].data # encoders[Target(u)].data

====
